---- MODULE Spec2Model ----
(***************************************************************************)
(* Model of misaki/pl.py: the Polish text cleaner (PLCleaner) and the      *)
(* grapheme-to-phoneme converter (PLG2P).                                  *)
(*                                                                         *)
(* A Python str is a sequence of characters.  An ASCII character is the    *)
(* one-character string of itself; any other character is written by its   *)
(* code point, "U+0329".  The transcription engine (backend.phonemize) and *)
(* the numeral speller (num2words) are collaborators: what they answer is  *)
(* drawn in Init and held in the variables engine and spellRaises.         *)
(***************************************************************************)
EXTENDS Integers, Sequences, FiniteSets, TLC

VARIABLES
    pc,           \* position in PLG2P.__call__
    input,        \* the argument text of the call (never changed)
    text,         \* the local variable text of PLG2P.__call__
    cleaned,      \* what self.cleaner(text) returned
    handed,       \* the text handed to backend.phonemize
    version,      \* self.version
    hasNum2words, \* whether self.num2words is not None
    spellRaises,  \* whether self.num2words(n) raises
    calls,        \* the arguments self.num2words was called with, in order
    spans,        \* the match each of those calls was made for: <<first, last>>
    engine,       \* what backend.phonemize answers: [kind, out]
    raw,          \* ps[0].strip(): the raw transcription being postprocessed
    ps,           \* the local variable ps of PLG2P.__call__
    ruleIdx,      \* index of the next rule of the loop over PL_PHONEME_MAP
    prov,         \* for each character of ps, the rule that produced it (0: the engine)
    reused,       \* whether a rule matched a character produced by an earlier rule
    result        \* the phoneme string returned (read when pc = "done")

vars == <<pc, input, text, cleaned, handed, version, hasNum2words, spellRaises,
          calls, spans, engine, raw, ps, ruleIdx, prov, reused, result>>

----------------------------------------------------------------------------
(* Bounds of the model *)

\* longest raw transcription over RawAlphabet
MaxRawLen == 3
\* longest text over NumAlphabet
MaxNumLen == 4
\* longest run of trailing punctuation after an abbreviation
MaxPunct == 1
\* longest whitespace-only text
MaxBlankLen == 3

----------------------------------------------------------------------------
(* Python str operations *)

\* the whitespace characters of the modelled texts
WhiteSpace == {" ", "\t", "\n", "\r", "U+00A0"}

\* str.isspace() of one character
IsSpace(c) == c \in WhiteSpace

\* s[a..b], empty when a > b
Slice(s, a, b) == IF a > b THEN <<>> ELSE SubSeq(s, a, b)

\* str.startswith(pat, i - 1), positions counted from 1
MatchAt(s, i, pat) ==
    /\ i + Len(pat) - 1 <= Len(s)
    /\ \A k \in 1..Len(pat) : s[i + k - 1] = pat[k]

\* pat in s
Contains(s, pat) == \E i \in 1..Len(s) : MatchAt(s, i, pat)

\* str.replace(old, new) for a non-empty old: leftmost matches, not overlapping
RECURSIVE ReplaceFrom(_, _, _, _)
ReplaceFrom(s, i, old, new) ==
    IF i > Len(s) THEN <<>>
    ELSE IF MatchAt(s, i, old)
         THEN new \o ReplaceFrom(s, i + Len(old), old, new)
         ELSE <<s[i]>> \o ReplaceFrom(s, i + 1, old, new)

Replace(s, old, new) == ReplaceFrom(s, 1, old, new)

\* str.lstrip()
RECURSIVE LStrip(_)
LStrip(s) == IF s # <<>> /\ IsSpace(Head(s)) THEN LStrip(Tail(s)) ELSE s

\* str.rstrip(chars)
RECURSIVE RStripChars(_, _)
RStripChars(s, chars) ==
    IF s # <<>> /\ s[Len(s)] \in chars
    THEN RStripChars(SubSeq(s, 1, Len(s) - 1), chars)
    ELSE s

\* str.strip()
Strip(s) == RStripChars(LStrip(s), WhiteSpace)

\* str.split(): the maximal runs of non-whitespace characters
RECURSIVE SplitFrom(_, _, _)
SplitFrom(s, i, word) ==
    IF i > Len(s) THEN (IF word = <<>> THEN <<>> ELSE <<word>>)
    ELSE IF IsSpace(s[i])
         THEN (IF word = <<>> THEN <<>> ELSE <<word>>) \o SplitFrom(s, i + 1, <<>>)
         ELSE SplitFrom(s, i + 1, Append(word, s[i]))

Split(s) == SplitFrom(s, 1, <<>>)

\* ' '.join(words)
RECURSIVE Join(_)
Join(words) ==
    IF words = <<>> THEN <<>>
    ELSE IF Len(words) = 1 THEN words[1]
    ELSE words[1] \o <<" ">> \o Join(Tail(words))

\* the upper-case letters of the modelled texts and their str.lower()
LowerPairs ==
    << <<"A", "a">>, <<"B", "b">>, <<"C", "c">>, <<"D", "d">>, <<"E", "e">>,
       <<"F", "f">>, <<"G", "g">>, <<"H", "h">>, <<"I", "i">>, <<"J", "j">>,
       <<"K", "k">>, <<"L", "l">>, <<"M", "m">>, <<"N", "n">>, <<"O", "o">>,
       <<"P", "p">>, <<"R", "r">>, <<"S", "s">>, <<"T", "t">>, <<"U", "u">>,
       <<"W", "w">>, <<"Y", "y">>, <<"Z", "z">>,
       <<"U+0104", "U+0105">>, <<"U+0106", "U+0107">>, <<"U+0118", "U+0119">>,
       <<"U+0141", "U+0142">>, <<"U+0143", "U+0144">>, <<"U+00D3", "U+00F3">>,
       <<"U+015A", "U+015B">>, <<"U+0179", "U+017A">>, <<"U+017B", "U+017C">> >>

LowerChar(c) ==
    IF \E k \in 1..Len(LowerPairs) : LowerPairs[k][1] = c
    THEN LowerPairs[CHOOSE k \in 1..Len(LowerPairs) : LowerPairs[k][1] = c][2]
    ELSE c

UpperChar(c) ==
    IF \E k \in 1..Len(LowerPairs) : LowerPairs[k][2] = c
    THEN LowerPairs[CHOOSE k \in 1..Len(LowerPairs) : LowerPairs[k][2] = c][1]
    ELSE c

\* str.lower()
Lower(s) == [k \in 1..Len(s) |-> LowerChar(s[k])]

\* str.upper(), used to build inputs
Upper(s) == [k \in 1..Len(s) |-> UpperChar(s[k])]

----------------------------------------------------------------------------
(* PLCleaner *)

\* PLCleaner.ABBREVIATIONS: <<key, expansion>> in the order of the dict
ABBREVIATIONS ==
    << <<<<"d", "r">>, <<"d", "o", "k", "t", "o", "r">>>>,
       <<<<"p", "r", "o", "f", ".">>, <<"p", "r", "o", "f", "e", "s", "o", "r">>>>,
       <<<<"m", "g", "r">>, <<"m", "a", "g", "i", "s", "t", "e", "r">>>>,
       <<<<"i", "n", "U+017C", ".">>, <<"i", "n", "U+017C", "y", "n", "i", "e", "r">>>>,
       <<<<"u", "l", ".">>, <<"u", "l", "i", "c", "a">>>>,
       <<<<"a", "l", ".">>, <<"a", "l", "e", "j", "a">>>>,
       <<<<"p", "l", ".">>, <<"p", "l", "a", "c">>>>,
       <<<<"n", "r">>, <<"n", "u", "m", "e", "r">>>>,
       <<<<"t", "e", "l", ".">>, <<"t", "e", "l", "e", "f", "o", "n">>>>,
       <<<<"g", "o", "d", "z", ".">>, <<"g", "o", "d", "z", "i", "n", "a">>>>,
       <<<<"m", "i", "n", ".">>, <<"m", "i", "n", "u", "t", "a">>>>,
       <<<<"s", "e", "k", ".">>, <<"s", "e", "k", "u", "n", "d", "a">>>>,
       <<<<"t", "y", "s", ".">>, <<"t", "y", "s", "i", "U+0119", "c", "y">>>>,
       <<<<"m", "l", "n">>, <<"m", "i", "l", "i", "o", "n", "U+00F3", "w">>>>,
       <<<<"m", "l", "d">>, <<"m", "i", "l", "i", "a", "r", "d", "U+00F3", "w">>>>,
       <<<<"z", "U+0142">>, <<"z", "U+0142", "o", "t", "y", "c", "h">>>>,
       <<<<"g", "r">>, <<"g", "r", "o", "s", "z", "y">>>>,
       <<<<"r", ".">>, <<"r", "o", "k", "u">>>>,
       <<<<"w", ".">>, <<"w", "i", "e", "k", "u">>>>,
       <<<<"n", ".", "e", ".">>, <<"n", "a", "s", "z", "e", "j", " ", "e", "r", "y">>>>,
       <<<<"p", ".", "n", ".", "e", ".">>, <<"p", "r", "z", "e", "d", " ", "n", "a", "s", "z", "U+0105", " ", "e", "r", "U+0105">>>>,
       <<<<"i", "t", "d", ".">>, <<"i", " ", "t", "a", "k", " ", "d", "a", "l", "e", "j">>>>,
       <<<<"i", "t", "p", ".">>, <<"i", " ", "t", "y", "m", " ", "p", "o", "d", "o", "b", "n", "e">>>>,
       <<<<"n", "p", ".">>, <<"n", "a", " ", "p", "r", "z", "y", "k", "U+0142", "a", "d">>>>,
       <<<<"t", "j", ".">>, <<"t", "o", " ", "j", "e", "s", "t">>>>,
       <<<<"t", "z", "n", ".">>, <<"t", "o", " ", "z", "n", "a", "c", "z", "y">>>>,
       <<<<"t", "z", "w", ".">>, <<"t", "a", "k", " ", "z", "w", "a", "n", "y">>>>,
       <<<<"w", "g">>, <<"w", "e", "d", "U+0142", "u", "g">>>>,
       <<<<"w", "s", ".">>, <<"w", " ", "s", "p", "r", "a", "w", "i", "e">>>>,
       <<<<"d", "s", ".">>, <<"d", "o", " ", "s", "p", "r", "a", "w">>>>,
       <<<<"o", "k", ".">>, <<"o", "k", "o", "U+0142", "o">>>>,
       <<<<"c", "a">>, <<"o", "k", "o", "U+0142", "o">>>>,
       <<<<"U+015B", "w", ".">>, <<"U+015B", "w", "i", "U+0119", "t", "y">>>> >>

\* word_lower in self.ABBREVIATIONS
InAbbreviations(key) == \E k \in 1..Len(ABBREVIATIONS) : ABBREVIATIONS[k][1] = key

\* self.ABBREVIATIONS[word_lower]
AbbreviationOf(key) ==
    ABBREVIATIONS[CHOOSE k \in 1..Len(ABBREVIATIONS) : ABBREVIATIONS[k][1] = key][2]

\* the dict replacements of PLCleaner._normalize_unicode, in its order
UnicodeReplacements ==
    << <<<<"U+0105">>, <<"U+0105">>>>,
       <<<<"U+0107">>, <<"U+0107">>>>,
       <<<<"U+0119">>, <<"U+0119">>>>,
       <<<<"U+0142">>, <<"U+0142">>>>,
       <<<<"U+0144">>, <<"U+0144">>>>,
       <<<<"U+00F3">>, <<"U+00F3">>>>,
       <<<<"U+015B">>, <<"U+015B">>>>,
       <<<<"U+017A">>, <<"U+017A">>>>,
       <<<<"U+017C">>, <<"U+017C">>>>,
       <<<<"U+0104">>, <<"U+0104">>>>,
       <<<<"U+0106">>, <<"U+0106">>>>,
       <<<<"U+0118">>, <<"U+0118">>>>,
       <<<<"U+0141">>, <<"U+0141">>>>,
       <<<<"U+0143">>, <<"U+0143">>>>,
       <<<<"U+00D3">>, <<"U+00D3">>>>,
       <<<<"U+015A">>, <<"U+015A">>>>,
       <<<<"U+0179">>, <<"U+0179">>>>,
       <<<<"U+017B">>, <<"U+017B">>>> >>

\* a loop "for old, new in rules: s = s.replace(old, new)" from rule k on
RECURSIVE ReplaceEach(_, _, _)
ReplaceEach(s, rules, k) ==
    IF k > Len(rules) THEN s
    ELSE ReplaceEach(Replace(s, rules[k][1], rules[k][2]), rules, k + 1)

\* PLCleaner._normalize_unicode
NormalizeUnicode(s) == ReplaceEach(s, UnicodeReplacements, 1)

\* the characters word.lower().rstrip('.,;:!?') strips
TrailingPunct == {".", ",", ";", ":", "!", "?"}

\* the lookup key of a word: word.lower().rstrip('.,;:!?')
WordKey(word) == RStripChars(Lower(word), TrailingPunct)

\* one turn of the loop of PLCleaner._expand_abbreviations
ExpandWord(word) ==
    IF InAbbreviations(WordKey(word)) THEN AbbreviationOf(WordKey(word)) ELSE word

\* PLCleaner._expand_abbreviations
ExpandAbbreviations(s) ==
    LET words == Split(s)
    IN  Join([k \in 1..Len(words) |-> ExpandWord(words[k])])

\* PLCleaner.__call__
PLCleaner(s) == ExpandAbbreviations(NormalizeUnicode(Strip(s)))

----------------------------------------------------------------------------
(* PLG2P._convert_numbers *)

Digits == <<"0", "1", "2", "3", "4", "5", "6", "7", "8", "9">>

\* the regular expression's \d
IsDigit(c) == \E k \in 1..Len(Digits) : Digits[k] = c

DigitValue(c) == (CHOOSE k \in 1..Len(Digits) : Digits[k] = c) - 1

\* the regular expression's [.,]
Separators == {".", ","}

\* last position of the run of digits that starts at i
RECURSIVE DigitsEnd(_, _)
DigitsEnd(s, i) ==
    IF i + 1 <= Len(s) /\ IsDigit(s[i + 1]) THEN DigitsEnd(s, i + 1) ELSE i

\* the match of \d+ alone
MatchEndDigitsOnly(s, i) == DigitsEnd(s, i)

\* last position of the match of \d+(?:[.,]\d+)? that starts at the digit s[i]
MatchEnd(s, i) ==
    LET j == DigitsEnd(s, i)
    IN  IF j + 2 <= Len(s) /\ s[j + 1] \in Separators /\ IsDigit(s[j + 2])
        THEN DigitsEnd(s, j + 2)
        ELSE j

\* the value of a string of digits, as int() reads it
RECURSIVE DigitsValue(_)
DigitsValue(digs) ==
    IF digs = <<>> THEN 0
    ELSE 10 * DigitsValue(SubSeq(digs, 1, Len(digs) - 1)) + DigitValue(digs[Len(digs)])

\* a decimal number mant / 10^exp without trailing zeros in its fraction
RECURSIVE Normalized(_, _)
Normalized(mant, exp) ==
    IF exp > 0 /\ mant % 10 = 0 THEN Normalized(mant \div 10, exp - 1)
    ELSE [type |-> "float", mant |-> mant, exp |-> exp]

\* int(num)
ParseInt(num) == [type |-> "int", mant |-> DigitsValue(num), exp |-> 0]

\* float(num), num being digits "." digits
ParseFloat(num) ==
    LET dot == CHOOSE k \in 1..Len(num) : num[k] = "."
        frac == Slice(num, dot + 1, Len(num))
    IN  Normalized(DigitsValue(Slice(num, 1, dot - 1) \o frac), Len(frac))

\* '.' not in num and ',' not in num
IsInteger(num) == ~Contains(num, <<".">>) /\ ~Contains(num, <<",">>)

\* num = num.replace(',', '.') of the decimal branch
WithDot(num) == Replace(num, <<",">>, <<".">>)

\* the argument replace_number passes to self.num2words
NumberOf(num) == IF IsInteger(num) THEN ParseInt(num) ELSE ParseFloat(WithDot(num))

\* what num2words(n, lang='pl') returns: the words of n, which the model
\* does not look into
Num2Words(n) == <<"w">>

\* replace_number(match): the replacement text; raises is whether
\* self.num2words raises, which the bare except turns into "return num", num
\* being by then the numeral with its comma replaced if it has a separator
ReplaceNumber(num, raises) ==
    IF raises
    THEN (IF IsInteger(num) THEN num ELSE WithDot(num))
    ELSE Num2Words(NumberOf(num))

\* re.sub(r'\d+(?:[.,]\d+)?', replace_number, text) from position i on:
\* the new text, the calls of self.num2words and the matches they were made for
RECURSIVE SubNumbers(_, _, _)
SubNumbers(s, i, raises) ==
    IF i > Len(s) THEN [out |-> <<>>, calls |-> <<>>, spans |-> <<>>]
    ELSE IF IsDigit(s[i])
         THEN LET e == MatchEnd(s, i)
                  num == SubSeq(s, i, e)
                  rest == SubNumbers(s, e + 1, raises)
              IN  [out |-> ReplaceNumber(num, raises) \o rest.out,
                   calls |-> <<NumberOf(num)>> \o rest.calls,
                   spans |-> << <<i, e>> >> \o rest.spans]
         ELSE LET rest == SubNumbers(s, i + 1, raises)
              IN  [rest EXCEPT !.out = <<s[i]>> \o rest.out]

\* PLG2P._convert_numbers
ConvertNumbers(s, raises) == SubNumbers(s, 1, raises)

----------------------------------------------------------------------------
(* PL_PHONEME_MAP *)

\* the dict literal PL_PHONEME_MAP is sorted from: <<old, new>> in its order
PhonemeDict ==
    << <<<<"t", "^", "s">>, <<"U+02A6">>>>,
       <<<<"d", "^", "z">>, <<"U+02A3">>>>,
       <<<<"t", "^", "U+0283">>, <<"U+02A7">>>>,
       <<<<"d", "^", "U+0292">>, <<"U+02A4">>>>,
       <<<<"t", "^", "U+0255">>, <<"U+02A8">>>>,
       <<<<"d", "^", "U+0291">>, <<"U+02A5">>>>,
       <<<<"t", "U+0283">>, <<"U+02A7">>>>,
       <<<<"d", "U+0292">>, <<"U+02A4">>>>,
       <<<<"t", "s">>, <<"U+02A6">>>>,
       <<<<"d", "z">>, <<"U+02A3">>>>,
       <<<<"t", "U+0255">>, <<"U+02A8">>>>,
       <<<<"d", "U+0291">>, <<"U+02A5">>>>,
       <<<<"U+025B", "U+0303">>, <<"U+025B", "U+0303">>>>,
       <<<<"U+0254", "U+0303">>, <<"U+0254", "U+0303">>>>,
       <<<<"U+0268">>, <<"U+0268">>>>,
       <<<<"U+0290">>, <<"U+0290">>>>,
       <<<<"U+0282">>, <<"U+0282">>>>,
       <<<<"U+0255">>, <<"U+0255">>>>,
       <<<<"U+0291">>, <<"U+0291">>>>,
       <<<<"U+0272">>, <<"U+0272">>>>,
       <<<<"U+02D0">>, <<>>>> >>

\* the sort key without its minus sign: shortest pattern first
SortKeyAscending(kv) == Len(kv[1])

\* the sort key of PL_PHONEME_MAP: lambda kv: -len(kv[0])
SortKey(kv) == -Len(kv[1])

\* sorted(): x put into the sorted list, after every item whose key is not larger
RECURSIVE InsertSorted(_, _)
InsertSorted(sortedItems, x) ==
    IF sortedItems = <<>> THEN <<x>>
    ELSE IF SortKey(x) < SortKey(Head(sortedItems))
         THEN <<x>> \o sortedItems
         ELSE <<Head(sortedItems)>> \o InsertSorted(Tail(sortedItems), x)

\* sorted(items, key=...): a stable sort by ascending key
RECURSIVE Sorted(_)
Sorted(items) ==
    IF items = <<>> THEN <<>>
    ELSE InsertSorted(Sorted(SubSeq(items, 1, Len(items) - 1)), items[Len(items)])

\* PL_PHONEME_MAP: the rules in the order the loop of __call__ applies them
PL_PHONEME_MAP == Sorted(PhonemeDict)

----------------------------------------------------------------------------
(* PLG2P.__call__ *)

\* text.replace(g1, '"').replace(g2, '"'); text.replace(low, '"').replace('"', '"')
NormalizeQuotes(s) ==
    Replace(Replace(Replace(Replace(s, <<"U+00AB">>, <<"\"">>),
                            <<"U+00BB">>, <<"\"">>),
                    <<"U+201E">>, <<"\"">>),
            <<"\"">>, <<"\"">>)

\* ps[0] taken as it is
FirstUnstripped(answer) == answer[1]

\* ps[0].strip(), ps being the list the engine returned
FirstStripped(answer) == Strip(answer[1])

\* the tie markers left in place
RemoveTiesSkipped(s) == s

\* ps.replace('^', '')
RemoveTies(s) == Replace(s, <<"^">>, <<>>)

\* only chr(809) removed
RemoveOnlySyllabicMark(s) == Replace(s, <<"U+0329">>, <<>>)

\* ps.replace(chr(809), '').replace(chr(810), ''): 809 = 0x329, 810 = 0x32A
RemoveSyllabicMarks(s) == Replace(Replace(s, <<"U+0329">>, <<>>), <<"U+032A">>, <<>>)

\* re.sub(r'(\S)̩', filler + r'\1', ps) from position i on, filler being U+1D4A
RECURSIVE SubSyllabic(_, _)
SubSyllabic(s, i) ==
    IF i > Len(s) THEN <<>>
    ELSE IF i + 1 <= Len(s) /\ ~IsSpace(s[i]) /\ s[i + 1] = "U+0329"
         THEN <<"U+1D4A", s[i]>> \o SubSyllabic(s, i + 2)
         ELSE <<s[i]>> \o SubSyllabic(s, i + 1)

\* the branch "if self.version == '2.0': ... else: ..."
HandleSyllabic(s, v) ==
    IF v = "2.0"
    THEN SubSyllabic(RemoveSyllabicMarks(s), 1)
    ELSE Replace(s, <<"-">>, <<>>)

(* Where the characters of ps come from.  str.replace(old, new) by rule idx,  *)
(* followed on the marks: a replacement's characters are marked idx, the      *)
(* others keep their mark.                                                    *)
RECURSIVE MarksFrom(_, _, _, _, _, _)
MarksFrom(s, marks, i, old, new, idx) ==
    IF i > Len(s) THEN <<>>
    ELSE IF MatchAt(s, i, old)
         THEN [k \in 1..Len(new) |-> idx] \o MarksFrom(s, marks, i + Len(old), old, new, idx)
         ELSE <<marks[i]>> \o MarksFrom(s, marks, i + 1, old, new, idx)

\* the positions where str.replace(old, new) finds old
RECURSIVE MatchesFrom(_, _, _)
MatchesFrom(s, i, old) ==
    IF i > Len(s) THEN {}
    ELSE IF MatchAt(s, i, old)
         THEN {i} \cup MatchesFrom(s, i + Len(old), old)
         ELSE MatchesFrom(s, i + 1, old)

\* whether str.replace(old, new) rewrites a character an earlier rule produced
RewritesProduced(s, marks, old) ==
    \E m \in MatchesFrom(s, 1, old) : \E k \in 0..(Len(old) - 1) : marks[m + k] # 0

----------------------------------------------------------------------------
(* Inputs *)

StringsUpTo(alphabet, n) == UNION {[1..k -> alphabet] : k \in 0..n}

\* self.version: '2.0' and one other value
Versions == {"2.0", "1.0"}

\* characters of the raw transcriptions tried at every length up to MaxRawLen
RawAlphabet ==
    {"t", "s", "d", "z", "U+0255", "^", "U+02D0", "U+0329", "U+032A", "U+032D",
     "-", " "}

\* the twelve raw affricate notations: the keys of the first twelve rules
AffricateNotations == {PhonemeDict[k][1] : k \in 1..12}

\* each notation alone, and between other sounds
AffricateRaws ==
    {pre \o n \o post : pre \in {<<>>, <<"a">>}, n \in AffricateNotations,
                        post \in {<<>>, <<"a">>}}

\* the patterns of any two rules side by side
PatternPairs ==
    {PhonemeDict[j][1] \o PhonemeDict[k][1] :
        j \in 1..Len(PhonemeDict), k \in 1..Len(PhonemeDict)}

RawStrings == StringsUpTo(RawAlphabet, MaxRawLen) \cup AffricateRaws \cup PatternPairs

\* backend.phonemize([text]) raises, returns [] or returns [out]
EngineAnswers ==
    {[kind |-> "raise", out |-> <<>>], [kind |-> "empty", out |-> <<>>]}
        \cup {[kind |-> "ok", out |-> r] : r \in RawStrings}

\* characters of the texts with numerals, tried at every length up to MaxNumLen
NumAlphabet == {"1", "0", ".", ",", "a"}

NumTexts == StringsUpTo(NumAlphabet, MaxNumLen)

\* trailing punctuation put after an abbreviation
PunctRuns == StringsUpTo({".", ",", "?"}, MaxPunct)

\* every key of the table in lower and upper case, followed by punctuation,
\* alone and between other words
AbbrevTexts ==
    {pre \o w \o p \o post :
        pre \in {<<>>, <<"a", " ">>},
        w \in {ABBREVIATIONS[k][1] : k \in 1..Len(ABBREVIATIONS)}
                 \cup {Upper(ABBREVIATIONS[k][1]) : k \in 1..Len(ABBREVIATIONS)},
        p \in PunctRuns,
        post \in {<<>>, <<" ", "a">>}}

\* the Polish letters with a canonical decomposition: <<letter, base, mark>>
Decompositions ==
    << <<"U+0105", "a", "U+0328">>, <<"U+0107", "c", "U+0301">>,
       <<"U+0119", "e", "U+0328">>, <<"U+0144", "n", "U+0301">>,
       <<"U+00F3", "o", "U+0301">>, <<"U+015B", "s", "U+0301">>,
       <<"U+017A", "z", "U+0301">>, <<"U+017C", "z", "U+0307">>,
       <<"U+0104", "A", "U+0328">>, <<"U+0106", "C", "U+0301">>,
       <<"U+0118", "E", "U+0328">>, <<"U+0143", "N", "U+0301">>,
       <<"U+00D3", "O", "U+0301">>, <<"U+015A", "S", "U+0301">>,
       <<"U+0179", "Z", "U+0301">>, <<"U+017B", "Z", "U+0307">> >>

\* each of those letters in both forms, alone and inside a word
UnicodeTexts ==
    {pre \o form \o post :
        pre \in {<<>>, <<"k">>},
        form \in {<<Decompositions[k][1]>> : k \in 1..Len(Decompositions)}
                    \cup {<<Decompositions[k][2], Decompositions[k][3]>> :
                             k \in 1..Len(Decompositions)},
        post \in {<<>>, <<"k">>}}

\* the empty text and the texts of whitespace only
BlankTexts == StringsUpTo({" ", "\t", "\n"}, MaxBlankLen)

\* what the engine may answer empty text with, and two other answers
BlankAnswers ==
    {[kind |-> "raise", out |-> <<>>], [kind |-> "empty", out |-> <<>>],
     [kind |-> "ok", out |-> <<>>], [kind |-> "ok", out |-> <<" ">>],
     [kind |-> "ok", out |-> <<"\n">>], [kind |-> "ok", out |-> <<" ", " ">>],
     [kind |-> "ok", out |-> <<"a">>]}

----------------------------------------------------------------------------
(* The state machine: one call of PLG2P.__call__ *)

InitLocals ==
    /\ pc = "clean"
    /\ text = input
    /\ cleaned = <<>>
    /\ handed = <<>>
    /\ calls = <<>>
    /\ spans = <<>>
    /\ raw = <<>>
    /\ ps = <<>>
    /\ ruleIdx = 1
    /\ prov = <<>>
    /\ reused = FALSE
    /\ result = <<>>

\* a call on some Polish text, the engine answering anything
Init ==
    /\ input \in {<<"a">>}
    /\ version \in Versions
    /\ hasNum2words = TRUE
    /\ spellRaises = FALSE
    /\ engine \in EngineAnswers
    /\ InitLocals

\* a call on a text of the cleaner's and the numeral expander's cases,
\* the engine answering with one sound
InitClean ==
    /\ \/ /\ input \in NumTexts
          /\ hasNum2words \in BOOLEAN
          /\ spellRaises \in (IF hasNum2words THEN BOOLEAN ELSE {FALSE})
       \/ /\ input \in AbbrevTexts \cup UnicodeTexts
          /\ hasNum2words = TRUE
          /\ spellRaises = FALSE
    /\ version = "2.0"
    /\ engine = [kind |-> "ok", out |-> <<"a">>]
    /\ InitLocals

\* a call on an empty or whitespace-only text
InitBlank ==
    /\ input \in BlankTexts
    /\ version \in Versions
    /\ hasNum2words \in BOOLEAN
    /\ spellRaises \in (IF hasNum2words THEN BOOLEAN ELSE {FALSE})
    /\ engine \in BlankAnswers
    /\ InitLocals

\* text = self.cleaner(text)
Clean ==
    /\ pc = "clean"
    /\ text' = PLCleaner(text)
    /\ cleaned' = text'
    /\ pc' = "numbers"
    /\ UNCHANGED <<input, handed, version, hasNum2words, spellRaises, calls, spans,
                   engine, raw, ps, ruleIdx, prov, reused, result>>

\* if self.num2words: text = self._convert_numbers(text)
Numbers ==
    /\ pc = "numbers"
    /\ IF hasNum2words
       THEN LET r == ConvertNumbers(text, spellRaises)
            IN  text' = r.out /\ calls' = r.calls /\ spans' = r.spans
       ELSE UNCHANGED <<text, calls, spans>>
    /\ pc' = "quotes"
    /\ UNCHANGED <<input, cleaned, handed, version, hasNum2words, spellRaises,
                   engine, raw, ps, ruleIdx, prov, reused, result>>

\* the two lines under "Handle quotes"
Quotes ==
    /\ pc = "quotes"
    /\ text' = NormalizeQuotes(text)
    /\ pc' = "phonemize"
    /\ UNCHANGED <<input, cleaned, handed, version, hasNum2words, spellRaises, calls,
                   spans, engine, raw, ps, ruleIdx, prov, reused, result>>

\* ps = self.backend.phonemize([text]); if not ps: return '', None;
\* ps = ps[0].strip().  An exception of the engine is not caught: the call raises.
Phonemize ==
    /\ pc = "phonemize"
    /\ handed' = text
    /\ CASE engine.kind = "raise" ->
              /\ pc' = "raised"
              /\ UNCHANGED <<raw, ps, prov, result>>
         [] engine.kind = "empty" ->
              /\ pc' = "done"
              /\ result' = <<>>
              /\ UNCHANGED <<raw, ps, prov>>
         [] OTHER ->
              /\ pc' = "map"
              /\ ps' = FirstStripped(<<engine.out>>)
              /\ raw' = ps'
              /\ prov' = [k \in 1..Len(ps') |-> 0]
              /\ UNCHANGED result
    /\ UNCHANGED <<input, text, cleaned, version, hasNum2words, spellRaises, calls,
                   spans, engine, ruleIdx, reused>>

\* one turn of "for old, new in PL_PHONEME_MAP: ps = ps.replace(old, new)"
MapRule ==
    /\ pc = "map"
    /\ LET old == PL_PHONEME_MAP[ruleIdx][1]
           new == PL_PHONEME_MAP[ruleIdx][2]
       IN  /\ ps' = Replace(ps, old, new)
           /\ prov' = MarksFrom(ps, prov, 1, old, new, ruleIdx)
           /\ reused' = (reused \/ RewritesProduced(ps, prov, old))
    /\ ruleIdx' = ruleIdx + 1
    /\ pc' = IF ruleIdx = Len(PL_PHONEME_MAP) THEN "tie" ELSE "map"
    /\ UNCHANGED <<input, text, cleaned, handed, version, hasNum2words, spellRaises,
                   calls, spans, engine, raw, result>>

\* ps = ps.replace('^', '')
RemoveTie ==
    /\ pc = "tie"
    /\ ps' = RemoveTies(ps)
    /\ prov' = <<>>
    /\ pc' = "syllabic"
    /\ UNCHANGED <<input, text, cleaned, handed, version, hasNum2words, spellRaises,
                   calls, spans, engine, raw, ruleIdx, reused, result>>

\* the branch on self.version, and return ps, None
Syllabic ==
    /\ pc = "syllabic"
    /\ ps' = HandleSyllabic(ps, version)
    /\ result' = ps'
    /\ pc' = "done"
    /\ UNCHANGED <<input, text, cleaned, handed, version, hasNum2words, spellRaises,
                   calls, spans, engine, raw, ruleIdx, prov, reused>>

Next == Clean \/ Numbers \/ Quotes \/ Phonemize \/ MapRule \/ RemoveTie \/ Syllabic

Spec == Init /\ [][Next]_vars

SpecClean == InitClean /\ [][Next]_vars

SpecBlank == InitBlank /\ [][Next]_vars

----------------------------------------------------------------------------
(* Properties of the postprocessing, checked under Spec *)

\* the call returned a postprocessed transcription
Returned == pc = "done" /\ engine.kind = "ok"

\* the six raw two-character affricate sequences
RawDigraphs ==
    {<<"t", "s">>, <<"d", "z">>, <<"t", "U+0283">>, <<"d", "U+0292">>,
     <<"t", "U+0255">>, <<"d", "U+0291">>}

(* C1: whatever the engine returns and for either version, the returned    *)
(* phoneme string contains none of the six raw two-character affricate     *)
(* sequences, also when the two letters meet only after a character        *)
(* between them was removed.                                               *)
C1_NoRawDigraphs ==
    Returned => \A d \in RawDigraphs : ~Contains(result, d)

\* characters the postprocessing itself removes
RemovedChars == {"^", "U+02D0", "U+0329", "U+032A", "-"}

(* C2: with version '2.0', where the raw transcription has a character X   *)
(* (not whitespace, and not one the postprocessing removes) followed by    *)
(* U+0329, the returned string has the filler U+1D4A before a character    *)
(* and no U+0329.                                                          *)
C2_SyllabicBecomesFiller ==
    (Returned /\ version = "2.0") =>
        \A i \in 1..(Len(raw) - 1) :
            (~IsSpace(raw[i]) /\ raw[i] \notin RemovedChars /\ raw[i + 1] = "U+0329")
                => /\ ~Contains(result, <<"U+0329">>)
                   /\ \E j \in 1..(Len(result) - 1) : result[j] = "U+1D4A"

\* the twelve raw notations and the canonical symbol of each
CanonicalAffricate ==
    << <<<<"t", "^", "s">>, "U+02A6">>, <<<<"d", "^", "z">>, "U+02A3">>,
       <<<<"t", "^", "U+0283">>, "U+02A7">>, <<<<"d", "^", "U+0292">>, "U+02A4">>,
       <<<<"t", "^", "U+0255">>, "U+02A8">>, <<<<"d", "^", "U+0291">>, "U+02A5">>,
       <<<<"t", "s">>, "U+02A6">>, <<<<"d", "z">>, "U+02A3">>,
       <<<<"t", "U+0283">>, "U+02A7">>, <<<<"d", "U+0292">>, "U+02A4">>,
       <<<<"t", "U+0255">>, "U+02A8">>, <<<<"d", "U+0291">>, "U+02A5">> >>

(* C4: each of the twelve raw affricate notations, alone or between other  *)
(* sounds, comes out as exactly its canonical symbol, and the returned     *)
(* string never contains the tie marker '^'.                               *)
C4_AffricatesCanonical ==
    Returned =>
        /\ ~Contains(result, <<"^">>)
        /\ \A k \in 1..Len(CanonicalAffricate) :
             \A pre \in {<<>>, <<"a">>} : \A post \in {<<>>, <<"a">>} :
                raw = pre \o CanonicalAffricate[k][1] \o post
                    => result = pre \o <<CanonicalAffricate[k][2]>> \o post

\* a tie-marked notation between two sounds was returned as its symbol
C4_Witness ==
    /\ Returned
    /\ raw = <<"a", "d", "^", "U+0291", "a">>
    /\ result = <<"a", "U+02A5", "a">>

(* C6 as claimed: with version '2.0' the returned string contains neither  *)
(* U+0329 nor U+032D.                                                      *)
C6_NoMarks0329And032D ==
    (Returned /\ version = "2.0") =>
        ~Contains(result, <<"U+0329">>) /\ ~Contains(result, <<"U+032D">>)

(* C6 as amended: with version '2.0' the returned string contains neither  *)
(* U+0329 (chr(809)) nor U+032A (chr(810)).                                *)
C6_NoMarks0329And032A ==
    (Returned /\ version = "2.0") =>
        ~Contains(result, <<"U+0329">>) /\ ~Contains(result, <<"U+032A">>)

\* a transcription holding both marks was returned under version '2.0'
C6_Witness ==
    /\ Returned
    /\ version = "2.0"
    /\ Contains(raw, <<"U+0329">>)
    /\ Contains(raw, <<"U+032A">>)

(* C7: when the engine fails on non-empty text, by raising or by giving no *)
(* result, the call does not return the empty phoneme string.              *)
C7_FailureIsNotEmptyResult ==
    ~(/\ pc = "done"
      /\ engine.kind \in {"raise", "empty"}
      /\ handed # <<>>
      /\ result = <<>>)

\* no rule comes before a rule with a strictly longer pattern
LongestFirst ==
    \A j \in 1..Len(PL_PHONEME_MAP) : \A k \in 1..Len(PL_PHONEME_MAP) :
        j < k => Len(PL_PHONEME_MAP[j][1]) >= Len(PL_PHONEME_MAP[k][1])

\* the symbols of the tie-marked notations of s, from position i on
RECURSIVE TieSymbolsFrom(_, _)
TieSymbolsFrom(s, i) ==
    IF i > Len(s) THEN <<>>
    ELSE IF \E k \in 1..6 : MatchAt(s, i, CanonicalAffricate[k][1])
         THEN <<CanonicalAffricate[CHOOSE k \in 1..6 :
                                       MatchAt(s, i, CanonicalAffricate[k][1])][2]>>
                  \o TieSymbolsFrom(s, i + 3)
         ELSE TieSymbolsFrom(s, i + 1)

\* the characters of ps that a rule with a three-character pattern produced
RECURSIVE ProducedByTieRules(_)
ProducedByTieRules(k) ==
    IF k > Len(ps) THEN <<>>
    ELSE IF prov[k] # 0 /\ Len(PL_PHONEME_MAP[prov[k]][1]) = 3
         THEN <<ps[k]>> \o ProducedByTieRules(k + 1)
         ELSE ProducedByTieRules(k + 1)

(* C10: the rules are applied in an order where no rule precedes one with  *)
(* a longer pattern; no rule rewrites a character an earlier rule          *)
(* produced; and after the loop every three-character tie-marked notation  *)
(* of the raw string has become its symbol, as a whole.                    *)
C10_LongestFirstNoRematch ==
    /\ LongestFirst
    /\ ~reused
    /\ pc = "tie" => ProducedByTieRules(1) = TieSymbolsFrom(raw, 1)

\* the loop ended on a raw string with tie-marked notations whose last
\* letter has a rule of its own
C10_Witness ==
    /\ pc = "tie"
    /\ raw = <<"t", "^", "U+0255">>
    /\ ps = <<"U+02A8">>

----------------------------------------------------------------------------
(* Properties of the cleaner and the numeral expander, checked under SpecClean *)

\* self.cleaner(text) has returned
CleanerReturned == pc # "clean"

\* word is key in some letter case, followed by characters of . , ; : ! ? only
IsKeyWithPunct(word, key) ==
    /\ Len(word) >= Len(key)
    /\ Lower(SubSeq(word, 1, Len(key))) = key
    /\ \A k \in (Len(key) + 1)..Len(word) : word[k] \in TrailingPunct

(* C3: for every key of the abbreviation table, a text that is one token    *)
(* equal to the key in any letter case, optionally followed by characters   *)
(* of . , ; : ! ?, is cleaned to the key's expansion.                       *)
C3_EveryAbbreviationExpands ==
    CleanerReturned =>
        \A k \in 1..Len(ABBREVIATIONS) :
            (Len(Split(input)) = 1 /\ IsKeyWithPunct(Split(input)[1], ABBREVIATIONS[k][1]))
                => cleaned = ABBREVIATIONS[k][2]

(* C5: the cleaned text holds no decomposed form (base letter followed by   *)
(* its combining mark) of a Polish diacritic letter: each has been mapped   *)
(* to the precomposed code point.                                           *)
C5_DecomposedIsComposed ==
    CleanerReturned =>
        \A k \in 1..Len(Decompositions) :
            ~Contains(cleaned, <<Decompositions[k][2], Decompositions[k][3]>>)

\* self._convert_numbers(text) has just returned: its argument is the cleaned
\* text, its result is in text
NumbersReturned == pc = "quotes" /\ hasNum2words

\* s[a..b] is digits, or digits, one separator and digits
IsNumeral(s, a, b) ==
    /\ 1 <= a /\ a <= b /\ b <= Len(s)
    /\ IsDigit(s[a]) /\ IsDigit(s[b])
    /\ Cardinality({k \in a..b : ~IsDigit(s[k])}) <= 1
    /\ \A k \in a..b : IsDigit(s[k]) \/ s[k] \in Separators

HasSeparator(s, a, b) == \E k \in a..b : s[k] \in Separators

\* the match s[a..b] cannot be extended on either side
IsMaximal(s, a, b) ==
    /\ a > 1 => ~IsDigit(s[a - 1])
    /\ b < Len(s) => ~IsDigit(s[b + 1])
    /\ ~HasSeparator(s, a, b) =>
           ~(b + 2 <= Len(s) /\ s[b + 1] \in Separators /\ IsDigit(s[b + 2]))

RECURSIVE Pow10(_)
Pow10(n) == IF n = 0 THEN 1 ELSE 10 * Pow10(n - 1)

\* the digits of s[a..b]
DigitsOf(s, a, b) == SelectSeq(SubSeq(s, a, b), IsDigit)

\* the number of digits of s[a..b] after its separator
FractionLen(s, a, b) == Cardinality({k \in a..b : \E j \in a..k : s[j] \in Separators /\ j < k})

\* the call n is the one the claim asks for the numeral s[a..b]: an integer
\* for plain digits, else the decimal number with the separator read as '.'
IsValueOf(n, s, a, b) ==
    IF HasSeparator(s, a, b)
    THEN /\ n.type = "float"
         /\ n.exp <= FractionLen(s, a, b)
         /\ n.mant * Pow10(FractionLen(s, a, b) - n.exp) = DigitsValue(DigitsOf(s, a, b))
    ELSE /\ n.type = "int"
         /\ n.exp = 0
         /\ n.mant = DigitsValue(DigitsOf(s, a, b))

\* s from position i on with the numerals calledFor[k..] replaced: by the
\* speller's words, or by themselves with '.' for ',' when the speller raised
RECURSIVE WithNumeralsSpelled(_, _, _, _)
WithNumeralsSpelled(s, i, calledFor, k) ==
    IF i > Len(s) THEN <<>>
    ELSE IF k <= Len(calledFor) /\ calledFor[k][1] = i
         THEN (IF spellRaises
               THEN [j \in 1..(calledFor[k][2] - i + 1) |->
                        IF s[i + j - 1] = "," THEN "." ELSE s[i + j - 1]]
               ELSE <<"w">>)
                  \o WithNumeralsSpelled(s, calledFor[k][2] + 1, calledFor, k + 1)
         ELSE <<s[i]>> \o WithNumeralsSpelled(s, i + 1, calledFor, k)

(* C8: _convert_numbers calls the speller exactly once for each maximal run *)
(* 'digits, optionally one . or , and digits' of its text: the calls are    *)
(* for disjoint maximal numerals that cover every digit, a numeral with a   *)
(* separator is passed as one decimal value and one without as its integer  *)
(* value, and the text outside the numerals is unchanged.                   *)
C8_OneCallPerNumeral ==
    NumbersReturned =>
        /\ Len(calls) = Len(spans)
        /\ \A k \in 1..Len(spans) :
              /\ IsNumeral(cleaned, spans[k][1], spans[k][2])
              /\ IsMaximal(cleaned, spans[k][1], spans[k][2])
              /\ IsValueOf(calls[k], cleaned, spans[k][1], spans[k][2])
              /\ k < Len(spans) => spans[k][2] < spans[k + 1][1]
        /\ \A i \in 1..Len(cleaned) :
              IsDigit(cleaned[i]) => \E k \in 1..Len(spans) : spans[k][1] <= i /\ i <= spans[k][2]
        /\ text = WithNumeralsSpelled(cleaned, 1, spans, 1)

\* a numeral with a decimal comma between other text was spelled by one call
C8_Witness ==
    /\ NumbersReturned
    /\ ~spellRaises
    /\ cleaned = <<"a", "1", ",", "0">>
    /\ calls = <<[type |-> "float", mant |-> 1, exp |-> 0]>>
    /\ text = <<"a", "w">>

----------------------------------------------------------------------------
(* Property of the call on blank text, checked under SpecBlank *)

\* the engine answers with no result or with an empty or whitespace-only string
AnswersBlank ==
    \/ engine.kind = "empty"
    \/ engine.kind = "ok" /\ \A k \in 1..Len(engine.out) : IsSpace(engine.out[k])

(* C9: on the empty text and on whitespace-only text the engine is handed   *)
(* the empty text, and if it answers with no result or with an empty or     *)
(* whitespace-only string the call does not raise and returns the empty     *)
(* phoneme string, for either version, with or without the speller.         *)
C9_BlankGivesEmpty ==
    /\ pc \notin {"clean", "numbers", "quotes", "phonemize"} => handed = <<>>
    /\ AnswersBlank => /\ pc # "raised"
                       /\ pc = "done" => result = <<>>

\* a whitespace-only text, answered with whitespace, returned the empty string
C9_Witness ==
    /\ pc = "done"
    /\ input = <<" ", "\t">>
    /\ engine = [kind |-> "ok", out |-> <<" ">>]
    /\ result = <<>>

====
